---- MODULE Spec2Model ----
(***************************************************************************)
(* State-machine model of the scatter renderer front end:                  *)
(*   src/src/mygame.rs         MyGame (surface, depth texture, uniforms,   *)
(*                             frame loop, window/device event handlers)   *)
(*   src/src/mygame/camera.rs  Camera, Axis, CameraController              *)
(*                                                                         *)
(* Numbers.  The program computes in f32.  The model computes in exact     *)
(* rationals <<n, d>> (d > 0, lowest terms); <<0, 0>> stands for NaN and   *)
(* is absorbing.  Angles are multiples of one unit angle whose cosine and  *)
(* sine are 3/5 and 4/5, so every sine and cosine is an exact rational and *)
(* no multiple of the unit is a multiple of a quarter turn.  Mouse deltas  *)
(* are counted in the delta that `sensitivity` turns into one unit angle.  *)
(* The only rounding is the square root of a non-square in `normalize`.    *)
(* Time is counted in clock ticks since start_time.                        *)
(***************************************************************************)
EXTENDS Integers, Sequences, FiniteSets, TLC

VARIABLES
    status,          \* "running" | "exited" (event_loop.exit) | "panicked"
    window_size,     \* host: what window.inner_size() returns now
    resized_events,  \* host: Resized(new_size) events not yet delivered
    fullscreen,      \* host: window.fullscreen().is_some()
    surface_config,  \* MyGame.surface_config (width, height)
    depth_texture,   \* MyGame.depth_texture (width, height of the image)
    game_info,       \* contents of uniform_buffers[0] (GameInfo)
    prev_time,       \* MyGame.prev_time
    now,             \* host: last value read from the monotonic clock
    frame,           \* history: what the last RenderFrame did
    horizontal,      \* CameraController.horizontal (Axis)
    vertical,        \* CameraController.vertical (Axis)
    speed,           \* CameraController.speed
    camera_motion,   \* CameraController.camera_motion
    camera,          \* MyGame.camera (eye, direction)
    key_last,        \* history: whether each key's last event was a press
    scrolled         \* history: the scroll lines of every wheel event so far

vars == <<status, window_size, resized_events, fullscreen, surface_config,
          depth_texture, game_info, prev_time, now, frame, horizontal,
          vertical, speed, camera_motion, camera, key_last, scrolled>>

hostVars == <<window_size, resized_events, fullscreen>>
gpuVars == <<surface_config, depth_texture, game_info>>
timeVars == <<prev_time, now, frame>>
inputVars == <<horizontal, vertical, speed, camera_motion, key_last, scrolled>>

(***************************************************************************)
(* Bounds of the model                                                     *)
(***************************************************************************)
MaxTime == 2         \* the clock is read up to this tick
MaxMoveTime == 1     \* the same, in the frames that move the camera
MaxPending == 1      \* Resized events queued by the host and not delivered
MaxScrolls == 2      \* wheel events
MaxYaw == 1          \* |accumulated horizontal mouse delta|, in units
MaxPitch == 2        \* |accumulated vertical mouse delta|, in units
SqrtPrecision == 100 \* a non-square root is rounded down to 1/SqrtPrecision

(***************************************************************************)
(* Rational arithmetic                                                     *)
(***************************************************************************)
Abs(x) == IF x < 0 THEN -x ELSE x

RECURSIVE GCD(_, _)
GCD(a, b) == IF b = 0 THEN a ELSE GCD(b, a % b)

NaN == <<0, 0>>
IsNaN(q) == q[2] = 0

Rat(n, d) ==
    IF d = 0 THEN NaN
    ELSE LET g == GCD(Abs(n), Abs(d))
             s == IF d < 0 THEN -1 ELSE 1
         IN  <<(s * n) \div g, (s * d) \div g>>

Whole(n) == <<n, 1>>
Zero == Whole(0)
One == Whole(1)

RMul(p, q) == IF IsNaN(p) \/ IsNaN(q) THEN NaN ELSE Rat(p[1] * q[1], p[2] * q[2])
RNeg(p) == <<-p[1], p[2]>>
RAdd(p, q) ==
    IF IsNaN(p) \/ IsNaN(q) THEN NaN
    ELSE LET l == (p[2] \div GCD(p[2], q[2])) * q[2]
         IN  Rat(p[1] * (l \div p[2]) + q[1] * (l \div q[2]), l)
RSub(p, q) == RAdd(p, RNeg(q))
RDiv(p, q) == IF IsNaN(p) \/ IsNaN(q) THEN NaN ELSE Rat(p[1] * q[2], p[2] * q[1])
RPos(p) == p[1] > 0 /\ p[2] > 0

\* floor(sqrt(n)) by bisection on lo..hi, lo * lo <= n < (hi + 1) * (hi + 1)
RECURSIVE Bisect(_, _, _)
Bisect(lo, hi, n) ==
    IF lo >= hi THEN lo
    ELSE LET mid == (lo + hi + 1) \div 2
         IN  IF mid * mid <= n THEN Bisect(mid, hi, n) ELSE Bisect(lo, mid - 1, n)

ISqrt(n) == Bisect(0, IF n < 46340 THEN n ELSE 46340, n)
IsSquare(n) == ISqrt(n) * ISqrt(n) = n

\* f32::sqrt: exact on a square of a rational, rounded down otherwise; NaN below 0
RSqrt(q) ==
    IF IsNaN(q) \/ q[1] < 0 THEN NaN
    ELSE LET rn == ISqrt(q[1])
             rd == ISqrt(q[2])
             P2 == SqrtPrecision * SqrtPrecision
             fl == (q[1] \div q[2]) * P2 + ((q[1] % q[2]) * P2) \div q[2]
         IN  IF rn * rn = q[1] /\ rd * rd = q[2] THEN <<rn, rd>>
             ELSE Rat(ISqrt(fl), SqrtPrecision)

(***************************************************************************)
(* cgmath vectors and rotations, as camera.rs uses them                    *)
(***************************************************************************)
Vec(x, y, z) == <<x, y, z>>
unit_y == Vec(Zero, One, Zero)
unit_z == Vec(Zero, Zero, One)

VSub(a, b) == Vec(RSub(a[1], b[1]), RSub(a[2], b[2]), RSub(a[3], b[3]))
VAdd(a, b) == Vec(RAdd(a[1], b[1]), RAdd(a[2], b[2]), RAdd(a[3], b[3]))
VScale(a, k) == Vec(RMul(a[1], k), RMul(a[2], k), RMul(a[3], k))
Dot(a, b) == RAdd(RAdd(RMul(a[1], b[1]), RMul(a[2], b[2])), RMul(a[3], b[3]))
Cross(a, b) ==
    Vec(RSub(RMul(a[2], b[3]), RMul(a[3], b[2])),
        RSub(RMul(a[3], b[1]), RMul(a[1], b[3])),
        RSub(RMul(a[1], b[2]), RMul(a[2], b[1])))
Magnitude(a) == RSqrt(Dot(a, a))
\* InnerSpace::normalize: v / |v|; 0 / 0 = NaN in every component of the zero vector
Normalize(a) ==
    LET m == Magnitude(a)
    IN  Vec(RDiv(a[1], m), RDiv(a[2], m), RDiv(a[3], m))
VIsNaN(a) == IsNaN(a[1]) \/ IsNaN(a[2]) \/ IsNaN(a[3])

UnitCos == <<3, 5>>
UnitSin == <<4, 5>>

\* <<cos, sin>> of k unit angles
RECURSIVE CosSin(_)
CosSin(k) ==
    IF k = 0 THEN <<One, Zero>>
    ELSE IF k < 0 THEN LET p == CosSin(-k) IN <<p[1], RNeg(p[2])>>
    ELSE LET p == CosSin(k - 1)
         IN  <<RSub(RMul(p[1], UnitCos), RMul(p[2], UnitSin)),
               RAdd(RMul(p[2], UnitCos), RMul(p[1], UnitSin))>>

\* Matrix3::from_angle_y(theta) * v
RotateY(k, v) ==
    LET cs == CosSin(k)
        c == cs[1]
        s == cs[2]
    IN  Vec(RAdd(RMul(c, v[1]), RMul(s, v[3])),
            v[2],
            RAdd(RNeg(RMul(s, v[1])), RMul(c, v[3])))

\* Matrix3::from_angle_x(theta) * v
RotateX(k, v) ==
    LET cs == CosSin(k)
        c == cs[1]
        s == cs[2]
    IN  Vec(v[1],
            RSub(RMul(c, v[2]), RMul(s, v[3])),
            RAdd(RMul(s, v[2]), RMul(c, v[3])))

(***************************************************************************)
(* Camera, Axis, CameraController (camera.rs)                              *)
(***************************************************************************)
Keys == {"KeyA", "KeyD", "KeyS", "KeyW", "Escape", "KeyF"}

\* Camera::new
CameraNew == [eye |-> Vec(Zero, Zero, Zero), direction |-> unit_z]

\* Camera::up
CameraUp == unit_y

\* Camera::right with the cross product taken in the other order (faulty)
CameraRightSwapped(cam) == Cross(cam.direction, CameraUp)

\* Camera::right
CameraRight(cam) == Cross(CameraUp, cam.direction)

\* Camera::view / Camera::uniform: look_to_lh(eye, direction, up) has the rows
\* s = normalize(f x up), u = s x f, f = normalize(direction); it is a proper
\* (invertible) matrix exactly when none of them is NaN
ViewDefined(cam) ==
    LET f == Normalize(cam.direction)
        s == Normalize(Cross(f, CameraUp))
    IN  ~VIsNaN(f) /\ ~VIsNaN(s) /\ ~VIsNaN(cam.eye)

\* Axis::new
AxisNew(negative_button, positive_button) ==
    [negative_button |-> negative_button, positive_button |-> positive_button,
     negative_pressed |-> FALSE, positive_pressed |-> FALSE]

\* Axis::process with the negative branch taken without testing the key (faulty)
AxisProcessAnyKey(axis, key, pressed) ==
    IF key = axis.positive_button THEN [axis EXCEPT !.positive_pressed = pressed]
    ELSE [axis EXCEPT !.negative_pressed = pressed]

\* Axis::process
AxisProcess(axis, key, pressed) ==
    IF key = axis.positive_button THEN [axis EXCEPT !.positive_pressed = pressed]
    ELSE IF key = axis.negative_button THEN [axis EXCEPT !.negative_pressed = pressed]
    ELSE axis

\* Axis::get
AxisGet(axis) ==
    (IF axis.negative_pressed THEN -1 ELSE 0) + (IF axis.positive_pressed THEN 1 ELSE 0)

\* CameraController::new(5.0, 0.003), the call in MyGame::new
InitialSpeed == 5

\* the wheel arm with the scroll added to the speed instead of scaling it (faulty)
ScrollSpeedAdditive(spd, y) == RAdd(spd, RMul(Whole(y), Rat(1, 10)))

\* process_window_events, MouseWheel LineDelta(_, y): speed *= 1.0 + y * 0.1
ScrollSpeed(spd, y) == RMul(spd, RAdd(One, RMul(Whole(y), Rat(1, 10))))

\* process_device_events with the delta stored instead of added (faulty)
AccumulateMotionReplace(motion, delta) == delta

\* process_device_events, MouseMotion: camera_motion += delta
AccumulateMotion(motion, delta) == <<motion[1] + delta[1], motion[2] + delta[2]>>

\* the first two statements of update: direction = roty * rotx * unit_z,
\* the angles being camera_motion * sensitivity
LookDirection(motion) == RotateY(motion[1], RotateX(motion[2], unit_z))

\* CameraController::update with the movement added to eye without testing the
\* axes (faulty)
ControllerUpdateUnguarded(cam, motion, h, v, spd, delta) ==
    LET dir == LookDirection(motion)
        turned == [cam EXCEPT !.direction = dir]
        movement ==
            VScale(VScale(Normalize(VAdd(VScale(CameraRight(turned), Whole(h)),
                                         VScale(dir, Whole(v)))),
                          spd),
                   delta)
    IN  [turned EXCEPT !.eye = VAdd(cam.eye, movement)]

\* CameraController::update
ControllerUpdate(cam, motion, h, v, spd, delta) ==
    LET dir == LookDirection(motion)
        turned == [cam EXCEPT !.direction = dir]
        movement ==
            VScale(VScale(Normalize(VAdd(VScale(CameraRight(turned), Whole(h)),
                                         VScale(dir, Whole(v)))),
                          spd),
                   delta)
    IN  IF h # 0 \/ v # 0
        THEN [turned EXCEPT !.eye = VAdd(cam.eye, movement)]
        ELSE turned

(***************************************************************************)
(* MyGame (mygame.rs)                                                      *)
(***************************************************************************)
\* the inner sizes the window takes (non-zero: the surface cannot be
\* configured with a zero width or height)
Sizes == {<<800, 600>>, <<1024, 768>>}

\* wgpu::SurfaceError, and Ok for an acquired image
SurfaceErrors == {"Timeout", "Outdated", "Lost", "OutOfMemory"}
AcquireResults == {"Ok"} \cup SurfaceErrors

\* Texture::create_depth_texture(device, config, label): an image of the
\* configured width and height
CreateDepthTexture(config) == config

\* create_uniform_buffers: the initial GameInfo
CreateGameInfo(size) ==
    [resolution |-> size, time |-> Zero, delta_time |-> Rat(1, 100)]

\* MyGame::resize with the surface reconfigured and the depth texture kept (faulty)
ResizeKeepsDepth(config, depth, new_size) == <<new_size, depth>>

\* MyGame::resize: the new <<surface_config, depth_texture>>
Resize(config, depth, new_size) ==
    LET configured == new_size
    IN  <<configured, CreateDepthTexture(configured)>>

\* update_uniform_buffers, reading the clock at `time`: what it leaves in
\* prev_time and in uniform_buffers[0]
UpdateUniformBuffers(prev, time, size) ==
    [prev_time |-> time,
     game_info |-> [resolution |-> size, time |-> Whole(time),
                    delta_time |-> Whole(time - prev)]]

\* the effects of update_uniform_buffers, in program order
UpdateUniformBuffersLog == <<"prev_time", "write_game_info", "write_camera">>

\* render with the image presented before the commands are submitted (faulty)
RenderLogPresentFirst(acq) ==
    <<"update">> \o UpdateUniformBuffersLog \o <<"prev_time", "get_current_texture">>
    \o (IF acq = "Ok" THEN <<"render_pass", "present", "submit">> ELSE <<>>)

\* the effects of render, in program order, when get_current_texture gives acq
RenderLog(acq) ==
    <<"update">> \o UpdateUniformBuffersLog \o <<"prev_time", "get_current_texture">>
    \o (IF acq = "Ok" THEN <<"render_pass", "submit", "present">> ELSE <<>>)

\* window_event, RedrawRequested: what becomes of the process after render
AfterRender(acq) == IF acq = "Ok" THEN "running" ELSE "panicked"

\* MyGame::new in a window of inner size `size`
InitAt(size) ==
    /\ status = "running"
    /\ window_size = size
    /\ resized_events = <<>>
    /\ fullscreen = FALSE
    /\ surface_config = size
    /\ depth_texture = CreateDepthTexture(surface_config)
    /\ game_info = CreateGameInfo(size)
    /\ prev_time = 0
    /\ now = 0
    /\ frame = [acquire |-> "None", log |-> <<>>]
    /\ horizontal = AxisNew("KeyA", "KeyD")
    /\ vertical = AxisNew("KeyS", "KeyW")
    /\ speed = Whole(InitialSpeed)
    /\ camera_motion = <<0, 0>>
    /\ camera = CameraNew
    /\ key_last = [k \in Keys |-> FALSE]
    /\ scrolled = <<>>

Init == \E size \in Sizes : InitAt(size)

\* host: the window takes a new size and a Resized event is queued
HostResize(size) ==
    /\ status = "running"
    /\ size # window_size
    /\ Len(resized_events) < MaxPending
    /\ window_size' = size
    /\ resized_events' = Append(resized_events, size)
    /\ UNCHANGED <<status, fullscreen, gpuVars, timeVars, inputVars, camera>>

\* window_event, Resized(new_size)
Resized ==
    /\ status = "running"
    /\ resized_events # <<>>
    /\ LET r == Resize(surface_config, depth_texture, Head(resized_events))
       IN  /\ surface_config' = r[1]
           /\ depth_texture' = r[2]
    /\ resized_events' = Tail(resized_events)
    /\ UNCHANGED <<status, window_size, fullscreen, game_info, timeVars,
                   inputVars, camera>>

\* window_event, CloseRequested
CloseRequested ==
    /\ status = "running"
    /\ status' = "exited"
    /\ UNCHANGED <<hostVars, gpuVars, timeVars, inputVars, camera>>

\* window_event, KeyboardInput
KeyboardInput(key, pressed) ==
    /\ status = "running"
    /\ horizontal' = AxisProcess(horizontal, key, pressed)
    /\ vertical' = AxisProcess(vertical, key, pressed)
    /\ key_last' = [key_last EXCEPT ![key] = pressed]
    /\ status' = IF key = "Escape" /\ pressed THEN "exited" ELSE status
    /\ fullscreen' = IF key = "KeyF" /\ pressed THEN ~fullscreen ELSE fullscreen
    /\ UNCHANGED <<window_size, resized_events, gpuVars, timeVars, speed,
                   camera_motion, scrolled, camera>>

\* window_event, MouseWheel with LineDelta(_, y)
MouseWheel(y) ==
    /\ status = "running"
    /\ Len(scrolled) < MaxScrolls
    /\ speed' = ScrollSpeed(speed, y)
    /\ scrolled' = Append(scrolled, y)
    /\ UNCHANGED <<status, hostVars, gpuVars, timeVars, horizontal, vertical,
                   camera_motion, key_last, camera>>

\* window_event, any other event (MouseWheel with PixelDelta, CursorMoved, ...)
OtherWindowEvent ==
    /\ status = "running"
    /\ UNCHANGED vars

\* device_event, MouseMotion { delta }
MouseMotion(delta) ==
    /\ status = "running"
    /\ LET m == AccumulateMotion(camera_motion, delta)
       IN  /\ Abs(m[1]) <= MaxYaw
           /\ Abs(m[2]) <= MaxPitch
           /\ camera_motion' = m
    /\ UNCHANGED <<status, hostVars, gpuVars, timeVars, horizontal, vertical,
                   speed, key_last, scrolled, camera>>

\* window_event, RedrawRequested: render, the clock read at t1 by render and
\* at t2 by update_uniform_buffers, get_current_texture giving acq
RedrawRequested(t1, t2, acq) ==
    /\ status = "running"
    /\ now <= t1 /\ t1 <= t2
    /\ now' = t2
    /\ LET u == UpdateUniformBuffers(prev_time, t2, window_size)
       IN  /\ prev_time' = t1
           /\ game_info' = u.game_info
    /\ frame' = [acquire |-> acq, log |-> RenderLog(acq)]
    /\ status' = AfterRender(acq)
    /\ camera' = ControllerUpdate(camera, camera_motion, AxisGet(horizontal),
                                  AxisGet(vertical), speed, Whole(t1 - prev_time))
    /\ UNCHANGED <<hostVars, surface_config, depth_texture, inputVars>>

Ticks == 0..MaxTime

\* a RedrawRequested event, whatever the clock and the surface do
Redraw == \E t1, t2 \in Ticks, acq \in AcquireResults : RedrawRequested(t1, t2, acq)

\* The frame loop of one window: resizes, redraws, close and the two keys
\* MyGame itself reacts to
Next ==
    \/ \E size \in Sizes : HostResize(size)
    \/ Resized
    \/ CloseRequested
    \/ \E key \in {"Escape", "KeyF"}, pressed \in BOOLEAN : KeyboardInput(key, pressed)
    \/ OtherWindowEvent
    \/ Redraw

Spec == Init /\ [][Next]_vars

\* Input mapping: every key, wheel and mouse-motion event, between frames
ScrollLines == {-1, 1, -10}
MotionDeltas == {<<1, 0>>, <<-1, 0>>, <<0, 1>>, <<0, -1>>}

NextInput ==
    \/ \E key \in Keys, pressed \in BOOLEAN : KeyboardInput(key, pressed)
    \/ \E y \in ScrollLines : MouseWheel(y)
    \/ \E delta \in MotionDeltas : MouseMotion(delta)
    \/ OtherWindowEvent
    \/ CloseRequested

SpecInput == InitAt(<<800, 600>>) /\ [][NextInput]_vars

\* Looking around: mouse motion and frames, no key held
NextLook ==
    \/ \E delta \in MotionDeltas : MouseMotion(delta)
    \/ Redraw

SpecLook == InitAt(<<800, 600>>) /\ [][NextLook]_vars

\* Moving: the four movement keys, the wheel turned up and frames, the mouse
\* at rest
MoveKeys == {"KeyA", "KeyD", "KeyS", "KeyW"}
MoveTicks == 0..MaxMoveTime

NextMove ==
    \/ \E key \in MoveKeys, pressed \in BOOLEAN : KeyboardInput(key, pressed)
    \/ MouseWheel(1)
    \/ \E t1, t2 \in MoveTicks, acq \in AcquireResults : RedrawRequested(t1, t2, acq)

SpecMove == InitAt(<<800, 600>>) /\ [][NextMove]_vars

\* Steering: the movement keys, vertical mouse motion (the yaw turns right
\* and direction about unit_y together and changes neither length) and frames
\* that acquire their image, at most one of them after the clock has advanced
SteerDeltas == {<<0, 1>>, <<0, -1>>}
SteerTicks == {0, MaxMoveTime}

NextSteer ==
    \/ \E key \in MoveKeys, pressed \in BOOLEAN : KeyboardInput(key, pressed)
    \/ \E delta \in SteerDeltas : MouseMotion(delta)
    \/ \E t \in SteerTicks : RedrawRequested(t, t, "Ok")

SpecSteer == InitAt(<<800, 600>>) /\ [][NextSteer]_vars

\* Mouse look among the other events: mouse motion, the fullscreen key, the
\* wheel, other window events, close and frames
TurnKeys == {"KeyF"}

NextTurn ==
    \/ \E delta \in MotionDeltas : MouseMotion(delta)
    \/ \E key \in TurnKeys, pressed \in BOOLEAN : KeyboardInput(key, pressed)
    \/ MouseWheel(1)
    \/ OtherWindowEvent
    \/ CloseRequested
    \/ \E t \in SteerTicks : RedrawRequested(t, t, "Ok")

SpecTurn == InitAt(<<800, 600>>) /\ [][NextTurn]_vars

(***************************************************************************)
(* Properties                                                              *)
(***************************************************************************)
Positions(log, effect) == {i \in DOMAIN log : log[i] = effect}
Pressed(b) == IF b THEN 1 ELSE 0
unit_x == Vec(One, Zero, Zero)
AxesAtRest == AxisGet(horizontal) = 0 /\ AxisGet(vertical) = 0

\* C1: after initialization and after every resize, whatever redraws come
\* between, the depth texture has the width and height of the surface
\* configuration.
C1_DepthMatchesSurface == depth_texture = surface_config

\* a Resized event was handled before the first frame: the configuration is
\* no longer the initial size, which game_info still holds
C1_Witness ==
    /\ frame.acquire = "None"
    /\ surface_config # game_info.resolution
    /\ depth_texture = surface_config

\* C2: a frame whose acquisition fails with Outdated or Timeout is skipped
\* and the process keeps running.
C2_TransientErrorTolerated ==
    frame.acquire \in {"Outdated", "Timeout"} => status # "panicked"

\* C3: one RenderFrame assigns prev_time at most once.
C3_PrevTimeAssignedOnce == Cardinality(Positions(frame.log, "prev_time")) <= 1

\* C4: a frame that acquired an image submits once and then presents once,
\* after the render pass that draws into the image; a frame whose acquisition
\* failed neither submits nor presents.
C4_PresentOnceAfterSubmit ==
    LET acquired == Positions(frame.log, "get_current_texture")
        passes == Positions(frame.log, "render_pass")
        submits == Positions(frame.log, "submit")
        presents == Positions(frame.log, "present")
    IN  /\ frame.acquire = "Ok" =>
              /\ Cardinality(acquired) = 1
              /\ Cardinality(submits) = 1
              /\ Cardinality(presents) = 1
              /\ \A a \in acquired, r \in passes, b \in submits, p \in presents :
                     a < r /\ r < b /\ b < p
        /\ frame.acquire # "Ok" => submits = {} /\ presents = {}

C4_Witness ==
    /\ frame.acquire = "Ok"
    /\ Positions(frame.log, "present") # {}
    /\ status = "running"

\* C5: the resolution in FrameUniform is the window size of initialization
\* at first, and the resolution every RenderFrame writes is the width and
\* height of the surface configuration and of the depth texture at that frame.
C5_ResolutionMatchesSurface ==
    /\ game_info.resolution = window_size
    /\ [][Redraw => /\ game_info'.resolution = surface_config'
                    /\ game_info'.resolution = depth_texture']_vars

\* C6: the value of each axis is in {-1, 0, 1} and is (1 if the last event
\* of its positive key was a press, else 0) minus (1 if the last event of its
\* negative key was a press, else 0).
AxisFollowsKeys(axis) ==
    /\ AxisGet(axis) \in {-1, 0, 1}
    /\ AxisGet(axis) = Pressed(key_last[axis.positive_button])
                       - Pressed(key_last[axis.negative_button])

C6_AxisValue == AxisFollowsKeys(horizontal) /\ AxisFollowsKeys(vertical)

\* both keys of the horizontal axis are held, and of the vertical axis the
\* negative key alone
C6_Witness ==
    /\ key_last["KeyA"] /\ key_last["KeyD"] /\ AxisGet(horizontal) = 0
    /\ key_last["KeyS"] /\ ~key_last["KeyW"] /\ AxisGet(vertical) = -1

\* C7 as stated: an update with zero accumulated mouse delta and both axes at
\* rest leaves eye and direction unchanged.
C7_IdleUpdateChangesNothing ==
    [][camera_motion = <<0, 0>> /\ AxesAtRest /\ Redraw => camera' = camera]_vars

\* C7 as amended: an update with zero accumulated mouse delta and both axes
\* at rest leaves eye unchanged and sets direction to +Z, so direction is
\* unchanged exactly when it was +Z before.
C7_IdleUpdateKeepsEye ==
    [][camera_motion = <<0, 0>> /\ AxesAtRest /\ Redraw =>
           /\ camera'.eye = camera.eye
           /\ camera'.direction = unit_z
           /\ (camera' = camera <=> camera.direction = unit_z)]_vars

\* a frame has run at a later tick with the accumulated delta back at zero
C7_Witness ==
    /\ frame.acquire = "Ok"
    /\ prev_time > 0
    /\ camera_motion = <<0, 0>>
    /\ AxesAtRest
    /\ camera = CameraNew

\* C8: the speed is the initial speed times the product of (1 + 0.1 * y)
\* over the wheel events so far, unclamped, and nothing else changes it.
RECURSIVE ScrollProduct(_)
ScrollProduct(lines) ==
    IF lines = <<>> THEN One
    ELSE RMul(ScrollProduct(Tail(lines)), Rat(10 + Head(lines), 10))

C8_SpeedIsScrollProduct == speed = RMul(Whole(InitialSpeed), ScrollProduct(scrolled))

\* one line up then one line down: 5 * 1.1 * 0.9
C8_Witness == scrolled = <<1, -1>> /\ speed = Rat(99, 20)

\* C9: with horizontal = +1, vertical = 0 and zero accumulated mouse delta,
\* update leaves direction = +Z, right = +X, and adds right * speed * delta
\* to eye: a displacement of magnitude speed * delta that keeps eye's Y and Z.
C9_StrafeAlongRight ==
    [][AxisGet(horizontal) = 1 /\ AxisGet(vertical) = 0
              /\ camera_motion = <<0, 0>> /\ Redraw =>
           LET step == RMul(speed, Whole(prev_time' - prev_time))
           IN  /\ camera'.direction = unit_z
               /\ CameraRight(camera') = unit_x
               /\ camera'.eye = VAdd(camera.eye, VScale(CameraRight(camera'), step))
               /\ Magnitude(VSub(camera'.eye, camera.eye)) = step
               /\ camera'.eye[2] = camera.eye[2]
               /\ camera'.eye[3] = camera.eye[3]]_vars

\* KeyD is held and one frame of one tick has moved eye from the origin
C9_Witness ==
    /\ frame.acquire = "Ok"
    /\ AxisGet(horizontal) = 1 /\ AxisGet(vertical) = 0
    /\ camera.eye = Vec(Whole(InitialSpeed), Zero, Zero)

\* the angle of k units lies strictly within a quarter turn of zero: the
\* cosine stays positive all the way from 0 to k (one unit is less than a
\* quarter turn)
WithinQuarterTurn(k) == \A j \in 1..Abs(k) : RPos(CosSin(j)[1])

\* C10: the pitch every update derives from the accumulated vertical mouse
\* delta is strictly between -90 and +90 degrees, and the view matrix of the
\* camera it leaves is defined.
C10_PitchBelowQuarterTurn ==
    [][Redraw => WithinQuarterTurn(camera_motion[2]) /\ ViewDefined(camera')]_vars

\* The vector that update normalizes: horizontal * right + vertical * direction
MoveVector(cam, h, v) ==
    VAdd(VScale(CameraRight(cam), Whole(h)), VScale(cam.direction, Whole(v)))

ZeroVec == Vec(Zero, Zero, Zero)

\* C11: whenever a frame's update changes eye, the vector
\* horizontal * right + vertical * direction it normalized is not the zero
\* vector, whatever the axis values and the accumulated mouse delta are, and
\* the eye it leaves is never the result of normalizing the zero vector
C11_MovementVectorNonzero ==
    [][(camera'.eye # camera.eye)
         => /\ MoveVector(camera', AxisGet(horizontal), AxisGet(vertical)) # ZeroVec
            /\ ~VIsNaN(camera'.eye)]_vars

\* C11 is exercised: a strafe key is held alone, the view is pitched, and a
\* frame has moved the eye
C11_Witness ==
    /\ AxisGet(horizontal) # 0
    /\ AxisGet(vertical) = 0
    /\ camera_motion[2] # 0
    /\ camera.direction = LookDirection(camera_motion)
    /\ camera.eye # CameraNew.eye

\* C13: each frame computes the elapsed time and the delta once: the
\* delta_time written to FrameUniform is the delta passed to update
\* (the frame's prev_time minus the previous frame's), the time written is the
\* prev_time the frame leaves, and prev_time never decreases
C13_TimeComputedOnce ==
    [][Redraw => /\ prev_time' >= prev_time
                 /\ game_info'.time = Whole(prev_time')
                 /\ game_info'.delta_time = Whole(prev_time' - prev_time)]_vars

\* a MouseMotion event of the device, whatever its delta
AnyMouseMotion == \E delta \in MotionDeltas : MouseMotion(delta)

\* C12: the accumulated mouse delta is the component-wise sum of the
\* mouse-motion deltas received since start: it starts at zero, a MouseMotion
\* event adds its delta to each component, update and every other event leave
\* it unchanged, and the direction a frame's update sets is computed from that
\* total alone, however many updates ran before and wherever the motion
\* events fell between them
C12_MotionIsSumOfDeltas ==
    /\ camera_motion = <<0, 0>>
    /\ [][/\ \A delta \in MotionDeltas :
               MouseMotion(delta) => /\ camera_motion'[1] = camera_motion[1] + delta[1]
                                     /\ camera_motion'[2] = camera_motion[2] + delta[2]
          /\ ~AnyMouseMotion => camera_motion' = camera_motion
          /\ Redraw => camera'.direction
                          = RotateY(camera_motion[1], RotateX(camera_motion[2], unit_z))]_vars

\* C12 is exercised: deltas on both axes have been received, one of them
\* twice, the wheel has turned, and a frame that ran after the clock advanced
\* left the direction of the total
C12_Witness ==
    /\ camera_motion = <<1, 2>>
    /\ prev_time = MaxMoveTime
    /\ frame.acquire = "Ok"
    /\ speed # Whole(InitialSpeed)
    /\ camera.direction = LookDirection(<<1, 2>>)

====
